---- MODULE Spec2Model ----
(***************************************************************************)
(* Payment escrow and dispute reconciliation of the Oficios MZ backend.    *)
(*                                                                         *)
(* The state is the content of the backing store (payments, disputes,     *)
(* ratings; the jobs and users tables are fixed), the configured webhook   *)
(* secret, the status the payment processor holds, a logical clock, the    *)
(* requests in flight and the response of the request that ended last.  A  *)
(* request is a process: every awaited call to the store or to the         *)
(* processor is one atomic step, and other requests may run between two    *)
(* steps of the same handler.                                              *)
(***************************************************************************)
EXTENDS Integers, Sequences, FiniteSets, TLC

VARIABLES
    payments,       \* the payments table: a sequence of rows, id = index
    disputes,       \* the disputes table: a sequence of rows, id = index
    ratings,        \* the ratings table: a sequence of rows, id = index
    webhookSecret,  \* MERCADO_PAGO_WEBHOOK_SECRET, read once at import
    processor,      \* the status the processor holds for payment mp1
    now,            \* logical clock: datetime.now() as a tick count
    procs,          \* the requests in flight, one record per slot
    response        \* the response of the request that ended last

vars ==
    <<payments, disputes, ratings, webhookSecret, processor, now, procs,
      response>>

----------------------------------------------------------------------------
(* Bounds of the model *)

\* requests arrive while the clock is below this (each arrival is one tick)
MaxRequests == 3
\* number of requests that may be in flight at the same time
MaxInFlight == 2
\* rows the payments table may hold
MaxPayments == 2
\* rows the disputes table may hold
MaxDisputes == 2
\* number of webhook deliveries in the runs that follow deliveries only
MaxDeliveries == 2

----------------------------------------------------------------------------
(* Values *)

None == "None"
NoTime == 0

Slots == 1..MaxInFlight

\* jobs table: one job, with its employer and its worker
Jobs == {"j1"}
JobRow(j) == [id |-> j, employer_id |-> "e1", worker_id |-> "w1"]

\* job ids a request may name: the known job and one the store does not hold
JobIds == Jobs \cup {"unknown"}

\* the claims of a verified token: "sub" and "role"
TokenPayloads == {[sub |-> "e1", role |-> "user"]}

\* AuthService.get_user_from_token: the dict built from the claims.  It has
\* the keys "id", "user_id", "role", "email", "aud" and "exp"; a key the
\* dict lacks reads as dict.get reads it: "sub" as None, "is_admin" as
\* False.
get_user_from_token(payload) ==
    [id |-> payload.sub, role |-> payload.role, sub |-> None,
     is_admin |-> FALSE]

\* The dict the get_current_user dependency hands to a handler.  The
\* handlers read "sub", "role" and "is_admin" of it.  First the dicts that
\* carry the user under "sub": e1 is the job's employer, w1 its worker, u3
\* takes no part in it, adm is an administrator.  Then the dicts
\* AuthService builds, which carry the user under "id".
CurrentUsers ==
    { [sub |-> "e1",  id |-> None, role |-> "user",  is_admin |-> FALSE],
      [sub |-> "w1",  id |-> None, role |-> "user",  is_admin |-> FALSE],
      [sub |-> "u3",  id |-> None, role |-> "user",  is_admin |-> FALSE],
      [sub |-> "adm", id |-> None, role |-> "admin", is_admin |-> FALSE] }
    \cup {get_user_from_token(payload) : payload \in TokenPayloads}

\* what a request keeps of its caller
Caller(user) == [sub |-> user.sub, id |-> user.id]

\* What the store answers to one call: the expected 2xx, another status
\* code, or no answer at all (httpx raises a transport error).
StoreAnswers == {"ok", "err", "exc"}

\* the status code of a store answer that is not the expected one
StoreErrCode == 503

PaymentStatus == {"pending", "held", "released", "disputed", "refunded"}
DisputeStatus == {"open", "reviewing", "resolved", "escalated"}

\* amounts a client sends, as decimal numbers in thousandths of a peso: one
\* that is not positive, one that lies halfway between two hundredths
\* (2.675), one without a fraction
AmountInputs == {0, 2675, 50000}

\* 2^k modulo 1000
RECURSIVE Pow2Mod1000(_)
Pow2Mod1000(k) == IF k = 0 THEN 1 ELSE (2 * Pow2Mod1000(k - 1)) % 1000

\* the binary exponent e of num/den: 2^e <= num/den < 2^(e+1), num > 0
RECURSIVE BinaryExponent(_, _)
BinaryExponent(num, den) ==
    IF num >= 2 * den THEN BinaryExponent(num, 2 * den) + 1
    ELSE IF num < den THEN BinaryExponent(2 * num, den) - 1
    ELSE 0

\* amount: float.  The double nearest to the decimal number v/1000 has a
\* significand of 53 bits: it is m / 2^k with k = 52 - e, and m is
\* v * 2^k / 1000 rounded to an integer.  The remainder of that division
\* tells on which side of v/1000 the double lies (a remainder of exactly
\* 500 does not occur: v * 2^k is a multiple of 8 and 500 is not).
FloatOf(v) ==
    LET k == 52 - BinaryExponent(v, 1000)
        rem == ((v % 1000) * Pow2Mod1000(k)) % 1000
    IN  IF rem = 0 THEN "exact" ELSE IF rem < 500 THEN "below" ELSE "above"

\* round(v, 2) of the PaymentCreate validator, in hundredths: the double is
\* rounded by its own value, so a decimal that lies halfway between two
\* hundredths goes to the side its double lies on, and half to even only
\* when the double is exact
validate_amount(v) ==
    LET q == v \div 10
        r == v % 10
        side == FloatOf(v)
    IN  IF r > 5 THEN q + 1
        ELSE IF r < 5 THEN q
        ELSE IF side = "above" THEN q + 1
        ELSE IF side = "below" THEN q
        ELSE IF q % 2 = 1 THEN q + 1 ELSE q

\* PaymentCreate: Field(gt=0) and the validator's v <= 0 test
PaymentCreateValid(v) == v > 0

----------------------------------------------------------------------------
(* The store: PostgREST calls on the payments and disputes tables *)

\* GET payments?id=eq.<pid>
PaymentsById(pid) ==
    IF pid \in 1..Len(payments) THEN <<payments[pid]>> ELSE <<>>

\* GET payments?job_id=eq.<job>
PaymentIdsOfJob(job) == {i \in 1..Len(payments) : payments[i].job_id = job}

\* POST payments: the row as the store keeps it, unset columns null.  The
\* columns no handler reads or writes after the insert (the preference id,
\* created_at, updated_at) are not kept.
NewPaymentRow(rec) ==
    [job_id |-> rec.job_id, employer_id |-> rec.employer_id,
     worker_id |-> rec.worker_id, amount |-> rec.amount,
     status |-> rec.status,
     mercado_pago_payment_id |-> None, mercado_pago_status |-> None,
     held_at |-> NoTime, released_at |-> NoTime,
     disputed_at |-> NoTime, refunded_at |-> NoTime]

\* a row with the columns of a PATCH body overwritten
Patched(row, body) ==
    [f \in DOMAIN row |-> IF f \in DOMAIN body THEN body[f] ELSE row[f]]

\* PATCH payments?id=eq.<pid>
PatchPaymentById(pid, body) ==
    [i \in 1..Len(payments) |->
        IF i = pid THEN Patched(payments[i], body) ELSE payments[i]]

\* a faulty update by job: the body is stored as a new row of the job
InsertPaymentForJob(job, body) ==
    Append(payments,
           Patched(NewPaymentRow([job_id |-> job, employer_id |-> None,
                                  worker_id |-> None, amount |-> 0,
                                  status |-> "pending"]), body))

\* PATCH payments?job_id=eq.<job>: every row of the job
PatchPaymentsByJob(job, body) ==
    [i \in 1..Len(payments) |->
        IF payments[i].job_id = job THEN Patched(payments[i], body)
        ELSE payments[i]]

----------------------------------------------------------------------------
(* Requests *)

Idle == [op |-> "idle", pc |-> "idle"]

Free(p) == procs[p].pc = "idle"

InFlight == {p \in Slots : ~Free(p)}

\* The response of a request: the handler, the caller ("sub" and "id" of the
\* current user), the status the client receives, the status of the HTTPException
\* the handler raised (0: none), the row the request was about, and whether
\* the request wrote to the store.
Response(op, user, result, raised, target, wrote) ==
    [op |-> op, caller |-> user.sub, id |-> user.id, result |-> result,
     raised |-> raised, target |-> target, wrote |-> wrote]

NoResponse == Response("none", [sub |-> None, id |-> None], 0, 0, 0, FALSE)

\* a handler's "except Exception" clause: whatever was raised inside the
\* try block, HTTPException included, leaves as a 500
ExceptException(raised) == 500

\* a request arrives in the lowest free slot: the clock ticks
Arrives(p, limit) ==
    /\ Free(p)
    /\ \A q \in Slots : q < p => ~Free(q)
    /\ Cardinality(InFlight) < limit
    /\ now < MaxRequests
    /\ now' = now + 1

\* the request of slot p goes on to its next step
Goto(p, rec) ==
    /\ procs' = [procs EXCEPT ![p] = rec]
    /\ UNCHANGED response

\* what a request keeps once its writes are done and the notifications are
\* left: its caller and the row it answers with
Notifying(r) ==
    IF r.op = "update_dispute"
      THEN [op |-> r.op, pc |-> "notify", user |-> r.user,
            dispute_id |-> r.dispute_id]
    ELSE [op |-> r.op, pc |-> "notify", user |-> r.user,
          payment_id |-> r.payment_id]

\* the request of slot p ends with a response
Return(p, resp) ==
    /\ procs' = [procs EXCEPT ![p] = Idle]
    /\ response' = resp

----------------------------------------------------------------------------
(* create_payment *)

\* create_payment requests that have not inserted their payment yet
CreatingPayments == {q \in Slots : procs[q].op = "create_payment"}

\* the request arrives, get_job_info reads the job, the employer is checked
create_payment(p, limit, answers) ==
    /\ Arrives(p, limit)
    /\ Len(payments) + Cardinality(CreatingPayments) < MaxPayments
    /\ \E user \in CurrentUsers, amount \in AmountInputs :
           LET employer_id == user.sub
               Reject(code) ==
                   Return(p, Response("create_payment", user, code,
                                      code, 0, FALSE))
           IN  /\ IF ~PaymentCreateValid(amount) THEN Reject(422)
                  ELSE \E job \in JobIds, ans \in answers :
                      IF ans # "ok" \/ job \notin Jobs THEN Reject(404)
                      ELSE IF JobRow(job).employer_id # employer_id
                        THEN Reject(403)
                      ELSE Goto(p, [op |-> "create_payment", pc |-> "check",
                                    job_id |-> job,
                                    employer_id |-> employer_id,
                                    user |-> Caller(user),
                                    amount |-> validate_amount(amount)])
               /\ UNCHANGED <<payments, disputes, ratings, webhookSecret, processor>>

\* a faulty existence test: one row is not enough
PaymentExistsTwice(ans, existing) == ans = "ok" /\ Cardinality(existing) > 1

\* "Ya existe un pago para este trabajo": raised when the lookup answers
\* 200 with at least one row
PaymentExists(ans, existing) == ans = "ok" /\ existing # {}

\* the existence check: GET payments?job_id=eq.<job>
create_payment_check(p, answers) ==
    /\ procs[p].op = "create_payment" /\ procs[p].pc = "check"
    /\ \E ans \in answers :
        LET r == procs[p]
            existing == PaymentIdsOfJob(r.job_id)
        IN  IF ans = "exc"
              THEN Return(p, Response(r.op, r.user, 500, 0, 0, FALSE))
            ELSE IF PaymentExists(ans, existing)
              THEN Return(p, Response(r.op, r.user, 400, 400, 0, FALSE))
            ELSE Goto(p, [r EXCEPT !.pc = "insert"])
    /\ UNCHANGED <<payments, disputes, ratings, webhookSecret, processor, now>>

\* the processor preference is created (or not), then POST payments
create_payment_insert(p, answers) ==
    /\ procs[p].op = "create_payment" /\ procs[p].pc = "insert"
    /\ \E ans \in answers :
        LET r == procs[p]
            payment_record ==
                [job_id |-> r.job_id, employer_id |-> r.employer_id,
                 worker_id |-> JobRow(r.job_id).worker_id,
                 amount |-> r.amount, status |-> "pending"]
        IN  \/ /\ ans = "ok"
               /\ Len(payments) < MaxPayments
               /\ payments' = Append(payments, NewPaymentRow(payment_record))
               /\ Return(p, Response(r.op, r.user, 201, 0, Len(payments'), TRUE))
            \/ /\ ans = "err"
               /\ Return(p, Response(r.op, r.user, StoreErrCode, 0, 0, FALSE))
               /\ UNCHANGED payments
            \/ /\ ans = "exc"
               /\ Return(p, Response(r.op, r.user, ExceptException(ans), 0, 0, FALSE))
               /\ UNCHANGED payments
    /\ UNCHANGED <<disputes, ratings, webhookSecret, processor, now>>

----------------------------------------------------------------------------
(* hold_payment and release_payment *)

\* payment ids a request may name: the rows the table can hold
PaymentIdInputs == 1..MaxPayments

\* a faulty ownership test: every user passes
AnyoneIsEmployer(payment, current_user_id) == TRUE

\* the ownership test of hold_payment and release_payment:
\* payment["employer_id"] != current_user_id raises
IsEmployer(payment, current_user_id) == payment.employer_id = current_user_id

\* the state guard of hold_payment: payment["status"] != "pending" raises
HoldAllowed(status) == status = "pending"

\* the state guard of release_payment: payment["status"] != "held" raises
ReleaseAllowed(status) == status = "held"

\* The request arrives and reads the payment: GET payments?id=eq.<pid>.
\* Every HTTPException of the handler is raised inside its try block, whose
\* last clause is "except Exception".  A request that passes the guards
\* builds the body of its PATCH, and reads datetime.now() for it, before
\* the PATCH is awaited: the time is kept with the request.
hold_payment(p, limit, answers) ==
    /\ Arrives(p, limit)
    /\ \E user \in CurrentUsers, pid \in PaymentIdInputs, ans \in answers :
           LET rows == PaymentsById(pid)
               Raise(code) ==
                   Return(p, Response("hold_payment", user, ExceptException(code),
                                      code, pid, FALSE))
           IN  /\ IF ans = "exc"
                    THEN Return(p, Response("hold_payment", user,
                                            ExceptException(ans), 0, pid, FALSE))
                  ELSE IF ans = "err" THEN Raise(StoreErrCode)
                  ELSE IF rows = <<>> THEN Raise(404)
                  ELSE IF ~IsEmployer(rows[1], user.sub) THEN Raise(403)
                  ELSE IF ~HoldAllowed(rows[1].status) THEN Raise(400)
                  ELSE Goto(p, [op |-> "hold_payment", pc |-> "patch",
                                payment_id |-> pid, user_id |-> user.sub,
                                user |-> Caller(user), at |-> now'])
               /\ UNCHANGED <<payments, disputes, ratings, webhookSecret, processor>>

\* PATCH payments?id=eq.<pid> with {"status": "held", "held_at": <the time
\* read when the body was built>}; after an answer of 200 the handler goes
\* on to the notification
hold_payment_patch(p, answers) ==
    /\ procs[p].op = "hold_payment" /\ procs[p].pc = "patch"
    /\ \E ans \in answers :
        LET r == procs[p]
            update_data == [status |-> "held", held_at |-> r.at]
        IN  \/ /\ ans = "ok"
               /\ payments' = PatchPaymentById(r.payment_id, update_data)
               /\ Goto(p, Notifying(r))
            \/ /\ ans = "err"
               /\ Return(p, Response(r.op, r.user, ExceptException(StoreErrCode),
                                     StoreErrCode, r.payment_id, FALSE))
               /\ UNCHANGED payments
            \/ /\ ans = "exc"
               /\ Return(p, Response(r.op, r.user, ExceptException(ans), 0,
                                     r.payment_id, FALSE))
               /\ UNCHANGED payments
    /\ UNCHANGED <<disputes, ratings, webhookSecret, processor, now>>

\* The notification of the worker: get_job_info, get_user_info and
\* notify_payment_held are awaited inside a try block of their own, and
\* whatever they raise is logged; they write to no table of the model.
\* Then the handler returns the row its PATCH got back.
hold_payment_notify(p) ==
    /\ procs[p].op = "hold_payment" /\ procs[p].pc = "notify"
    /\ LET r == procs[p]
       IN  Return(p, Response(r.op, r.user, 200, 0, r.payment_id, TRUE))
    /\ UNCHANGED <<payments, disputes, ratings, webhookSecret, processor, now>>

release_payment(p, limit, answers) ==
    /\ Arrives(p, limit)
    /\ \E user \in CurrentUsers, pid \in PaymentIdInputs, ans \in answers :
           LET rows == PaymentsById(pid)
               Raise(code) ==
                   Return(p, Response("release_payment", user,
                                      ExceptException(code), code, pid, FALSE))
           IN  /\ IF ans = "exc"
                    THEN Return(p, Response("release_payment", user,
                                            ExceptException(ans), 0, pid, FALSE))
                  ELSE IF ans = "err" THEN Raise(StoreErrCode)
                  ELSE IF rows = <<>> THEN Raise(404)
                  ELSE IF ~IsEmployer(rows[1], user.sub) THEN Raise(403)
                  ELSE IF ~ReleaseAllowed(rows[1].status) THEN Raise(400)
                  ELSE Goto(p, [op |-> "release_payment", pc |-> "patch",
                                payment_id |-> pid, user_id |-> user.sub,
                                user |-> Caller(user), at |-> now'])
               /\ UNCHANGED <<payments, disputes, ratings, webhookSecret, processor>>

\* PATCH payments?id=eq.<pid> with {"status": "released", "released_at":
\* <the time read when the body was built>}; after an answer of 200 the
\* handler goes on to the notifications
release_payment_patch(p, answers) ==
    /\ procs[p].op = "release_payment" /\ procs[p].pc = "patch"
    /\ \E ans \in answers :
        LET r == procs[p]
            update_data == [status |-> "released", released_at |-> r.at]
        IN  \/ /\ ans = "ok"
               /\ payments' = PatchPaymentById(r.payment_id, update_data)
               /\ Goto(p, Notifying(r))
            \/ /\ ans = "err"
               /\ Return(p, Response(r.op, r.user, ExceptException(StoreErrCode),
                                     StoreErrCode, r.payment_id, FALSE))
               /\ UNCHANGED payments
            \/ /\ ans = "exc"
               /\ Return(p, Response(r.op, r.user, ExceptException(ans), 0,
                                     r.payment_id, FALSE))
               /\ UNCHANGED payments
    /\ UNCHANGED <<disputes, ratings, webhookSecret, processor, now>>

\* The notifications of the worker and of the employer: get_job_info and
\* get_user_info (twice) are awaited inside a try block of their own, then
\* notify_payment_released, a method NotificationService lacks; whatever is
\* raised is logged, and no table of the model is written to.  Then the
\* handler returns the row its PATCH got back.
release_payment_notify(p) ==
    /\ procs[p].op = "release_payment" /\ procs[p].pc = "notify"
    /\ LET r == procs[p]
       IN  Return(p, Response(r.op, r.user, 200, 0, r.payment_id, TRUE))
    /\ UNCHANGED <<payments, disputes, ratings, webhookSecret, processor, now>>

\* the held payments the store counts as held for more than 7 days when
\* the moment 7 days back is cutoff: those held at cutoff or before
HeldSince(cutoff) ==
    {i \in 1..Len(payments) :
        /\ payments[i].status = "held"
        /\ payments[i].held_at # NoTime
        /\ payments[i].held_at <= cutoff}

\* the store function auto_release_payments, called at time at: the
\* payments held for more than 7 days are released
StoreAutoRelease(old, at) ==
    [i \in 1..Len(payments) |->
        IF i \in old
          THEN Patched(payments[i],
                       [status |-> "released", released_at |-> at])
        ELSE payments[i]]

\* POST /api/payments/auto-release: no user is authenticated; POST
\* rpc/auto_release_payments is the one call awaited.  A tick of the clock
\* is a time of any length, so the moment 7 days back is any moment before
\* the time of the request.  The endpoint answers 200 whatever the store
\* answers: the count of the released payments, or an error message.
auto_release_payments(p, limit, answers) ==
    /\ Arrives(p, limit)
    /\ \E ans \in answers :
           LET nobody == [sub |-> None, id |-> None]
           IN  \/ /\ ans = "ok"
                  /\ \E cutoff \in 0..(now' - 1) :
                         LET old == HeldSince(cutoff)
                         IN  /\ payments' = StoreAutoRelease(old, now')
                             /\ Return(p, Response("auto_release_payments",
                                                   nobody, 200, 0,
                                                   Cardinality(old),
                                                   old # {}))
               \/ /\ ans # "ok"
                  /\ UNCHANGED payments
                  /\ Return(p, Response("auto_release_payments", nobody,
                                        200, 0, 0, FALSE))
    /\ UNCHANGED <<disputes, ratings, webhookSecret, processor>>

----------------------------------------------------------------------------
(* The payment processor and the webhook *)

\* the statuses of the processor; "in_process" stands for every status the
\* mapping does not list, None for a payment without a status
MPStatuses == {"approved", "pending", "rejected", "cancelled", "refunded",
               "charged_back", "in_process", None}

\* the statuses the processor reports in the runs of the model: one for
\* each internal status the mapping yields, and the absent status
MPReported == {"approved", "pending", "rejected", "refunded", None}

\* the payments the processor holds
MPPayments == {"mp1"}

\* The external_reference a fetched payment may carry, as a sequence of
\* pieces: the one create_payment sets for job j1 ("job_" + job id), the
\* reference of a job the store does not hold, the reference of the job
\* whose id is "job_j1" (the store holds no such job), one without the
\* prefix, and none at all.
ExternalReferences ==
    {<<"job_", "j1">>, <<"job_", "unknown">>, <<"job_", "job_", "j1">>,
     <<"x", "j1">>, <<>>}

\* external_reference.replace("job_", ""): every "job_" piece is dropped;
\* what is left is the job id ("" when nothing is left)
JobIdOf(ref) ==
    LET rest == SelectSeq(ref, LAMBDA piece : piece # "job_")
    IN  IF rest = <<>> THEN "" ELSE rest[1]

\* The rows GET users?id=in.(employer, worker) may answer with: the users
\* table is written by no request of the model, and a row of it may be
\* missing.
UsersRows == {{"e1", "w1"}, {"e1"}, {"w1"}}

\* webhook bodies: not JSON, an event whose "data" is null ({"data": null}),
\* an event without data.id, an event about mp1
Payloads == {"notjson", "nulldata", "noid", "mp1"}
PayloadIsJson(payload) == payload # "notjson"

\* what reading a body raises when "data" is no object
AttributeError == "AttributeError"

\* webhook_data.get("data", {}).get("id"): the id, None when the event has
\* none, and AttributeError when "data" is null (None has no get)
PayloadPaymentId(payload) ==
    IF payload = "mp1" THEN "mp1"
    ELSE IF payload = "nulldata" THEN AttributeError
    ELSE None

\* hmac.new(key, payload, sha256).hexdigest(): one digest per key and body
Hmac(key, payload) == <<key, payload>>

\* the x-signature headers a sender may supply: the digest of any body
\* under the configured secret, and a digest under another key (no body
\* has it as its digest under the secret; one stands for all of them)
Signatures ==
    {Hmac("whsec", m) : m \in Payloads} \cup {Hmac("other", "mp1")}

\* a faulty validation: every signature passes
SkipsValidation(payload, signature) == TRUE

\* PaymentWebhookService._validate_webhook_signature
_validate_webhook_signature(payload, signature) ==
    IF webhookSecret = "" THEN TRUE
    ELSE signature = Hmac(webhookSecret, payload)

\* a faulty mapping: only "approved" is told apart
MapsApprovedOnly(mp_status) ==
    IF mp_status = "approved" THEN "held" ELSE "pending"

\* PaymentWebhookService._map_mp_status_to_internal
_map_mp_status_to_internal(mp_status) ==
    CASE mp_status = "approved"     -> "held"
      [] mp_status = "pending"      -> "pending"
      [] mp_status = "rejected"     -> "disputed"
      [] mp_status = "cancelled"    -> "disputed"
      [] mp_status = "refunded"     -> "refunded"
      [] mp_status = "charged_back" -> "disputed"
      [] OTHER                      -> "pending"

\* PaymentWebhookService.max_retries
max_retries == 3

\* The methods NotificationService has
NotificationServiceMethods ==
    {"create_notification", "notify_rating_received",
     "notify_payment_received", "notify_job_request", "notify_job_accepted",
     "notify_job_completed", "notify_job_cancelled", "notify_system_message",
     "notify_chat_message", "notify_payment_held",
     "notify_payment_released_employer", "notify_dispute_opened",
     "notify_dispute_created", "notify_dispute_resolved"}

\* the method _send_notification calls for a notification type
NotificationMethod(notification_type) ==
    CASE notification_type = "payment_approved" -> "notify_payment_approved"
      [] notification_type = "payment_pending"  -> "notify_payment_pending"
      [] notification_type = "payment_failed"   -> "notify_payment_failed"
      [] notification_type = "payment_disputed" -> "notify_payment_disputed"

\* a faulty dispatch: the failure of the call leaves _send_notification
RaisingSend(notification_type, user_id) ==
    IF NotificationMethod(notification_type) \in NotificationServiceMethods
      THEN "created" ELSE "raised"

\* PaymentWebhookService._send_notification: the call of a method the
\* service has creates the notification; the AttributeError of a method it
\* lacks is caught, logged, and False is returned
_send_notification(notification_type, user_id) ==
    IF NotificationMethod(notification_type) \in NotificationServiceMethods
      THEN "created" ELSE "failed"

\* The response of process_webhook: the endpoint answers 200 with a status.
\* Kept with it: the body and the signature the sender supplied, the
\* processor status the call applied (None: none), the numbers of
\* processor fetches, of store updates sent and of store updates persisted,
\* the users a notification was dispatched to and those one was created
\* for, and whether the delivery before it, the last request to end, was
\* the same one and succeeded.
WebhookResponse(r, status) ==
    [op |-> "process_webhook", result |-> 200, status |-> status,
     payload |-> r.payload, signature |-> r.signature,
     external_reference |-> r.external_reference,
     mp_status |-> r.mp_status, fetches |-> r.fetches,
     patches |-> r.patches, persisted |-> r.persisted,
     dispatched |-> r.dispatched, notified |-> r.notified,
     redelivery |-> /\ status = "success"
                    /\ response.op = "process_webhook"
                    /\ response.status = "success"
                    /\ response.payload = r.payload
                    /\ response.signature = r.signature
                    /\ response.mp_status = r.mp_status]

\* the webhook arrives: signature, JSON and data.id are checked; what the
\* reading of data.id raises is caught by the outer "except Exception",
\* which answers "error".  The
\* external_reference the processor holds for the payment does not change
\* while the delivery runs; it is kept from the arrival on, and read by the
\* program at each fetch.
process_webhook(p, limit, world) ==
    /\ Arrives(p, limit)
    /\ \E payload \in Payloads, signature \in Signatures :
           LET r == [op |-> "process_webhook", pc |-> "fetch",
                     payload |-> payload, signature |-> signature,
                     payment_id |-> PayloadPaymentId(payload),
                     external_reference |-> None,
                     attempt |-> 0, fetches |-> 0, patches |-> 0,
                     persisted |-> 0, dispatched |-> {}, notified |-> {},
                     mp_status |-> None, job_id |-> None, users |-> {},
                     at |-> NoTime]
           IN  /\ IF ~_validate_webhook_signature(payload, signature)
                    THEN Return(p, WebhookResponse(r, "error"))
                  ELSE IF ~PayloadIsJson(payload)
                    THEN Return(p, WebhookResponse(r, "error"))
                  ELSE IF PayloadPaymentId(payload) = AttributeError
                    THEN Return(p, WebhookResponse(r, "error"))
                  ELSE IF PayloadPaymentId(payload) = None
                    THEN Return(p, WebhookResponse(r, "ignored"))
                  ELSE \E external_reference \in world.references :
                           Goto(p, [r EXCEPT !.external_reference =
                                                 external_reference])
               /\ UNCHANGED <<payments, disputes, ratings, webhookSecret, processor>>

\* a faulty retry loop: one attempt more than max_retries
RetryOnceMore(p, r) ==
    LET next == [r EXCEPT !.mp_status = None, !.job_id = None,
                          !.users = {}, !.at = NoTime]
    IN  IF r.attempt < max_retries
          THEN /\ Goto(p, [next EXCEPT !.pc = "fetch", !.attempt = @ + 1])
               /\ now' = now + 1
        ELSE /\ Return(p, WebhookResponse(next, "error"))
             /\ UNCHANGED now

\* an attempt of the retry loop failed: sleep (time passes) and go round
\* again, or give up at once after max_retries attempts; what the attempt
\* fetched and loaded is gone
Retry(p, r) ==
    LET next == [r EXCEPT !.mp_status = None, !.job_id = None,
                          !.users = {}, !.at = NoTime]
    IN  IF r.attempt < max_retries - 1
          THEN /\ Goto(p, [next EXCEPT !.pc = "fetch", !.attempt = @ + 1])
               /\ now' = now + 1
        ELSE /\ Return(p, WebhookResponse(next, "error"))
             /\ UNCHANGED now

\* external_reference is present and starts with "job_"
ValidExternalReference(ref) == ref # <<>> /\ ref[1] = "job_"

\* _get_job_and_users_info, first call: GET jobs?id=eq.<job> answers 200
\* with a row
JobLoaded(job_id, ans) == ans = "ok" /\ job_id \in Jobs

\* What lies outside the program and the store's tables of payments and
\* disputes: the statuses and the references the processor may report for a
\* payment, and the user rows the store may return.  In the plain world the
\* processor reports the reference create_payment set and the users of the
\* job have their rows; in the full world anything listed above may come.
PlainWorld ==
    [statuses |-> MPReported, references |-> {<<"job_", "j1">>},
     users |-> {{"e1", "w1"}}]
FullWorld ==
    [statuses |-> MPStatuses, references |-> ExternalReferences,
     users |-> UsersRows]

\* _get_payment_from_mp: GET /v1/payments/<id> at the processor, which is
\* outside the program: an answered fetch reports whatever status and
\* reference the processor holds for the payment at that moment.  Then
\* _process_payment_event parses the reference and reads the status of the
\* fetched payment, and goes on to the job.
process_webhook_fetch(p, answers, world) ==
    /\ procs[p].op = "process_webhook" /\ procs[p].pc = "fetch"
    /\ LET r == [procs[p] EXCEPT !.fetches = @ + 1]
       IN  \/ /\ \E ans \in answers : ans # "ok"
              /\ Retry(p, r)
           \/ /\ "ok" \in answers
              /\ LET external_reference == r.external_reference
                     job_id == JobIdOf(external_reference)
                 IN  IF ~ValidExternalReference(external_reference)
                       THEN Retry(p, r)
                     ELSE /\ \E reported \in world.statuses :
                                 Goto(p, [r EXCEPT !.pc = "job",
                                                   !.mp_status = reported,
                                                   !.job_id = job_id])
                          /\ UNCHANGED now
    /\ UNCHANGED <<payments, disputes, ratings, webhookSecret, processor>>

\* _get_job_and_users_info, first call: GET jobs?id=eq.<job> (a table no
\* request writes to); without a row, or without an answer of 200, the
\* attempt fails
process_webhook_job(p, answers) ==
    /\ procs[p].op = "process_webhook" /\ procs[p].pc = "job"
    /\ LET r == procs[p]
       IN  \/ /\ \E ans \in answers : ~JobLoaded(r.job_id, ans)
              /\ Retry(p, r)
           \/ /\ \E ans \in answers : JobLoaded(r.job_id, ans)
              /\ Goto(p, [r EXCEPT !.pc = "users"])
              /\ UNCHANGED now
    /\ UNCHANGED <<payments, disputes, ratings, webhookSecret, processor>>

\* _get_job_and_users_info, second call: GET users?id=in.(employer,
\* worker) (a table no request writes to).  With the rows it answers,
\* _process_payment_event builds the body of the update, and reads
\* datetime.now() for it, before the PATCH is awaited: the time is kept
\* with the delivery.
process_webhook_users(p, answers, world) ==
    /\ procs[p].op = "process_webhook" /\ procs[p].pc = "users"
    /\ LET r == procs[p]
       IN  \/ /\ \E ans \in answers : ans # "ok"
              /\ Retry(p, r)
           \/ /\ "ok" \in answers
              /\ \E users \in world.users :
                     Goto(p, [r EXCEPT !.pc = "patch", !.users = users,
                                       !.at = now])
              /\ UNCHANGED now
    /\ UNCHANGED <<payments, disputes, ratings, webhookSecret, processor>>

\* a faulty update: the amount column is written as well
UpdateWithAmount(payment_id, mp_status, at) ==
    [mercado_pago_payment_id |-> payment_id,
     mercado_pago_status |-> mp_status,
     status |-> _map_mp_status_to_internal(mp_status),
     amount |-> 0]

\* the update _process_payment_event builds from the processor's status;
\* the transaction_amount of the fetched payment goes to the log and to the
\* notification data only
WebhookUpdateData(payment_id, mp_status, at) ==
    LET internal_status == _map_mp_status_to_internal(mp_status)
        base == [mercado_pago_payment_id |-> payment_id,
                 mercado_pago_status |-> mp_status,
                 status |-> internal_status]
    IN  IF internal_status = "held" THEN
            [f \in DOMAIN base \cup {"held_at"} |->
                IF f = "held_at" THEN at ELSE base[f]]
        ELSE IF internal_status = "released" THEN
            [f \in DOMAIN base \cup {"released_at"} |->
                IF f = "released_at" THEN at ELSE base[f]]
        ELSE IF internal_status = "disputed" THEN
            [f \in DOMAIN base \cup {"disputed_at"} |->
                IF f = "disputed_at" THEN at ELSE base[f]]
        ELSE base

\* the notifications _process_payment_event sends for an internal status,
\* in order: the type and the user of the job the notification is for
Notifications(internal_status, job_id) ==
    LET job == JobRow(job_id)
    IN  CASE internal_status = "held" ->
               <<[type |-> "payment_approved", user |-> job.worker_id]>>
          [] internal_status = "pending" ->
               <<[type |-> "payment_pending", user |-> job.employer_id]>>
          [] internal_status = "disputed" ->
               <<[type |-> "payment_disputed", user |-> job.employer_id],
                 [type |-> "payment_disputed", user |-> job.worker_id]>>
          [] OTHER -> <<>>

\* What sending the notifications ns does, given the user rows that were
\* loaded: job_info[..]["id"] of a missing row raises TypeError, and so ends
\* the sending; so does a dispatch that raises.  The result tells whether
\* an exception ended the sending, the users a notification was dispatched
\* to, and the users one was created for.
RECURSIVE SendAll(_, _)
SendAll(ns, users) ==
    IF ns = <<>> THEN [raised |-> FALSE, dispatched |-> {}, notified |-> {}]
    ELSE IF Head(ns).user \notin users
      THEN [raised |-> TRUE, dispatched |-> {}, notified |-> {}]
    ELSE LET outcome == _send_notification(Head(ns).type, Head(ns).user)
             rest == IF outcome = "raised"
                       THEN [raised |-> TRUE, dispatched |-> {},
                             notified |-> {}]
                     ELSE SendAll(Tail(ns), users)
         IN  [raised |-> rest.raised,
              dispatched |-> {Head(ns).user} \cup rest.dispatched,
              notified |-> (IF outcome = "created" THEN {Head(ns).user}
                            ELSE {}) \cup rest.notified]

\* _update_payment_in_db: PATCH payments?job_id=eq.<job>, and after an
\* answer of 200 the notifications, which suspend at no call; an exception
\* in them is caught by _process_payment_event, which returns False
process_webhook_patch(p, answers) ==
    /\ procs[p].op = "process_webhook" /\ procs[p].pc = "patch"
    /\ \E ans \in answers :
        LET r == [procs[p] EXCEPT !.patches = @ + 1]
            internal_status == _map_mp_status_to_internal(r.mp_status)
            sent == SendAll(Notifications(internal_status, r.job_id),
                            r.users)
            after == [r EXCEPT !.persisted = @ + 1,
                               !.dispatched = @ \cup sent.dispatched,
                               !.notified = @ \cup sent.notified]
        IN  \/ /\ ans = "ok"
               /\ payments' = PatchPaymentsByJob(r.job_id,
                                 WebhookUpdateData(r.payment_id, r.mp_status,
                                                   r.at))
               /\ IF sent.raised THEN Retry(p, after)
                  ELSE /\ Return(p, WebhookResponse(after, "success"))
                       /\ UNCHANGED now
            \/ /\ ans # "ok"
               /\ Retry(p, r)
               /\ UNCHANGED payments
    /\ UNCHANGED <<disputes, ratings, webhookSecret, processor>>

----------------------------------------------------------------------------
(* Disputes *)

\* Python's None for an Optional[str]; a text is a sequence of characters
NoneText == <<"None">>

\* resolution texts and admin notes an administrator may send
Resolutions == {NoneText, <<"F", "a", "v", "o", "r">>,
                <<"r", "e", "f", "u", "n", "d">>}
AdminNotes == {NoneText, <<"o", "k">>}

\* str.lower() on the characters the texts use
LowerChar(c) ==
    CASE c = "F" -> "f" [] c = "A" -> "a" [] c = "V" -> "v"
      [] c = "O" -> "o" [] c = "R" -> "r" [] OTHER -> c
Lower(text) == [i \in 1..Len(text) |-> LowerChar(text[i])]

\* Python's "sub in text"
Contains(sub, text) ==
    \E i \in 0..(Len(text) - Len(sub)) :
        \A k \in 1..Len(sub) : text[i + k] = sub[k]

\* is_admin(current_user)
is_admin(current_user) == current_user.role = "admin" \/ current_user.is_admin

\* a faulty derivation: the marker is looked for as it is written
CaseSensitiveStatus(resolution) ==
    IF Contains(<<"f", "a", "v", "o", "r">>, resolution)
      THEN "released" ELSE "refunded"

\* the payment status update_dispute derives from the resolution text
new_payment_status(resolution) ==
    IF Contains(<<"f", "a", "v", "o", "r">>, Lower(resolution))
      THEN "released" ELSE "refunded"

\* GET disputes?id=eq.<did>
DisputesById(did) ==
    IF did \in 1..Len(disputes) THEN <<disputes[did]>> ELSE <<>>

\* GET disputes?payment_id=eq.<pid>
DisputeIdsOfPayment(pid) ==
    {i \in 1..Len(disputes) : disputes[i].payment_id = pid}

\* POST disputes: the row as the store keeps it (reason and description are
\* stored and never read again; they are not kept)
NewDisputeRow(rec) ==
    [payment_id |-> rec.payment_id, initiator_id |-> rec.initiator_id,
     status |-> rec.status, admin_notes |-> NoneText,
     resolution |-> NoneText, resolved_by |-> None, resolved_at |-> NoTime]

\* PATCH disputes?id=eq.<did>
PatchDisputeById(did, body) ==
    [i \in 1..Len(disputes) |->
        IF i = did THEN Patched(disputes[i], body) ELSE disputes[i]]

DisputeIdInputs == 1..MaxDisputes

\* create_dispute requests that have not inserted their dispute yet
CreatingDisputes ==
    {q \in Slots : procs[q].op = "create_dispute" /\ procs[q].pc \in {"check", "insert"}}

\* a faulty participant test: every user passes
AnyoneParticipates(initiator_id, payment) == TRUE

\* the initiator takes part in the payment
IsParticipant(initiator_id, payment) ==
    initiator_id \in {payment.employer_id, payment.worker_id}

\* the request arrives; get_payment_info reads the payment (None when the
\* store does not answer 200 or holds no such row); the initiator is checked
create_dispute(p, limit, answers) ==
    /\ Arrives(p, limit)
    /\ Len(disputes) + Cardinality(CreatingDisputes) < MaxDisputes
    /\ \E user \in CurrentUsers, pid \in PaymentIdInputs, ans \in answers :
           LET initiator_id == user.sub
               rows == IF ans = "ok" THEN PaymentsById(pid) ELSE <<>>
               Reject(code) ==
                   Return(p, Response("create_dispute", user, code,
                                      code, pid, FALSE))
           IN  /\ IF rows = <<>> THEN Reject(404)
                  ELSE IF ~IsParticipant(initiator_id, rows[1]) THEN Reject(403)
                  ELSE Goto(p, [op |-> "create_dispute", pc |-> "check",
                                payment_id |-> pid,
                                initiator_id |-> initiator_id,
                                user |-> Caller(user)])
               /\ UNCHANGED <<payments, disputes, ratings, webhookSecret, processor>>

\* "Ya existe una disputa para este pago": raised when the lookup answers
\* 200 with at least one row
DisputeExists(ans, existing) == ans = "ok" /\ existing # {}

\* the existence check: GET disputes?payment_id=eq.<pid>
create_dispute_check(p, answers) ==
    /\ procs[p].op = "create_dispute" /\ procs[p].pc = "check"
    /\ \E ans \in answers :
        LET r == procs[p]
            existing == DisputeIdsOfPayment(r.payment_id)
        IN  IF ans = "exc"
              THEN Return(p, Response(r.op, r.user, 500, 0, r.payment_id, FALSE))
            ELSE IF DisputeExists(ans, existing)
              THEN Return(p, Response(r.op, r.user, 400, 400, r.payment_id, FALSE))
            ELSE Goto(p, [r EXCEPT !.pc = "insert"])
    /\ UNCHANGED <<payments, disputes, ratings, webhookSecret, processor, now>>

\* POST disputes with status "open"; once it is answered the arguments of
\* the PATCH that follows are evaluated, datetime.now() among them, before
\* that PATCH is awaited
create_dispute_insert(p, answers) ==
    /\ procs[p].op = "create_dispute" /\ procs[p].pc = "insert"
    /\ \E ans \in answers :
        LET r == procs[p]
            dispute_record ==
                [payment_id |-> r.payment_id, initiator_id |-> r.initiator_id,
                 status |-> "open"]
        IN  \/ /\ ans = "ok"
               /\ Len(disputes) < MaxDisputes
               /\ disputes' = Append(disputes, NewDisputeRow(dispute_record))
               /\ Goto(p, [op |-> r.op, pc |-> "patch",
                            payment_id |-> r.payment_id,
                            initiator_id |-> r.initiator_id,
                            user |-> r.user, at |-> now])
            \/ /\ ans = "err"
               /\ Return(p, Response(r.op, r.user, StoreErrCode, 0, r.payment_id, FALSE))
               /\ UNCHANGED disputes
            \/ /\ ans = "exc"
               /\ Return(p, Response(r.op, r.user, ExceptException(ans), 0,
                                     r.payment_id, FALSE))
               /\ UNCHANGED disputes
    /\ UNCHANGED <<payments, ratings, webhookSecret, processor, now>>

\* what the store does with the PATCH that marks the payment disputed: the
\* rows after an answer of 200; an answer with another status changes no row
MarkDisputed(ans, pid, at) ==
    IF ans = "ok"
      THEN PatchPaymentById(pid, [status |-> "disputed", disputed_at |-> at])
    ELSE payments

\* PATCH payments?id=eq.<pid> with {"status": "disputed", "disputed_at":
\* <the time read before the PATCH was sent>};
\* the answer is not looked at, and the handler goes on to the notifications
create_dispute_patch(p, answers) ==
    /\ procs[p].op = "create_dispute" /\ procs[p].pc = "patch"
    /\ \E ans \in answers :
        LET r == procs[p]
        IN  \/ /\ ans # "exc"
               /\ payments' = MarkDisputed(ans, r.payment_id, r.at)
               /\ Goto(p, Notifying(r))
            \/ /\ ans = "exc"
               /\ Return(p, Response(r.op, r.user, ExceptException(ans), 0,
                                     r.payment_id, TRUE))
               /\ UNCHANGED payments
    /\ UNCHANGED <<disputes, ratings, webhookSecret, processor, now>>

\* The notifications of the two parties: get_user_info (twice),
\* notify_dispute_opened and notify_dispute_created are awaited inside a try
\* block of their own; whatever they raise is logged, and no table of the
\* model is written to.  Then the handler returns the dispute it created.
create_dispute_notify(p) ==
    /\ procs[p].op = "create_dispute" /\ procs[p].pc = "notify"
    /\ LET r == procs[p]
       IN  Return(p, Response(r.op, r.user, 201, 0, r.payment_id, TRUE))
    /\ UNCHANGED <<payments, disputes, ratings, webhookSecret, processor, now>>

\* The request arrives; the administrator is checked outside the try block,
\* the dispute is read inside it: GET disputes?id=eq.<did>.  The status, the
\* notes and the resolution of the DisputeUpdate are first read once the
\* dispute is found, for the body of the PATCH; a request that sets the
\* dispute to resolved reads datetime.now() for it then.
update_dispute(p, limit, answers) ==
    /\ Arrives(p, limit)
    /\ \E user \in CurrentUsers, did \in DisputeIdInputs, ans \in answers :
           LET rows == DisputesById(did)
               Raise(code) ==
                   Return(p, Response("update_dispute", user, ExceptException(code),
                                      code, did, FALSE))
           IN  /\ IF ~is_admin(user)
                    THEN Return(p, Response("update_dispute", user, 403, 403, did, FALSE))
                  ELSE IF ans = "exc"
                    THEN Return(p, Response("update_dispute", user,
                                            ExceptException(ans), 0, did, FALSE))
                  ELSE IF ans = "err" THEN Raise(StoreErrCode)
                  ELSE IF rows = <<>> THEN Raise(404)
                  ELSE \E status \in DisputeStatus, admin_notes \in AdminNotes,
                          resolution \in Resolutions :
                           Goto(p, [op |-> "update_dispute", pc |-> "patch",
                                    dispute_id |-> did, user_id |-> user.sub,
                                    user |-> Caller(user),
                                    payment_id |-> rows[1].payment_id,
                                    status |-> status,
                                    admin_notes |-> admin_notes,
                                    resolution |-> resolution,
                                    at |-> IF status = "resolved" THEN now'
                                           ELSE NoTime])
               /\ UNCHANGED <<payments, disputes, ratings, webhookSecret, processor>>

\* the body of the PATCH update_dispute sends for the dispute, built once
\* the dispute is read: resolved_at is the datetime.now() of that moment
DisputeUpdateData(r) ==
    LET base == [status |-> r.status, admin_notes |-> r.admin_notes,
                 resolution |-> r.resolution]
    IN  IF r.status = "resolved"
          THEN [f \in DOMAIN base \cup {"resolved_by", "resolved_at"} |->
                  IF f = "resolved_by" THEN r.user_id
                  ELSE IF f = "resolved_at" THEN r.at ELSE base[f]]
        ELSE base

\* dispute_update.resolution.lower() raises AttributeError on None
ResolutionRaises(resolution) == resolution = NoneText

\* PATCH disputes?id=eq.<did>; for a dispute set to "resolved" the payment
\* status is derived from the resolution text next; for any other status
\* the handler goes on to the notifications
update_dispute_patch(p, answers) ==
    /\ procs[p].op = "update_dispute" /\ procs[p].pc = "patch"
    /\ \E ans \in answers :
        LET r == procs[p]
        IN  \/ /\ ans = "ok"
               /\ disputes' = PatchDisputeById(r.dispute_id, DisputeUpdateData(r))
               /\ IF r.status # "resolved"
                    THEN Goto(p, Notifying(r))
                  ELSE IF ResolutionRaises(r.resolution)
                    THEN Return(p, Response(r.op, r.user, ExceptException(ans), 0,
                                            r.dispute_id, TRUE))
                  ELSE Goto(p, [r EXCEPT !.pc = "payment"])
            \/ /\ ans = "err"
               /\ Return(p, Response(r.op, r.user, ExceptException(StoreErrCode),
                                     StoreErrCode, r.dispute_id, FALSE))
               /\ UNCHANGED disputes
            \/ /\ ans = "exc"
               /\ Return(p, Response(r.op, r.user, ExceptException(ans), 0,
                                     r.dispute_id, FALSE))
               /\ UNCHANGED disputes
    /\ UNCHANGED <<payments, ratings, webhookSecret, processor, now>>

\* what the store does with the PATCH that settles the payment: the rows
\* after an answer of 200; an answer with another status changes no row
SettlePayment(ans, pid, status) ==
    IF ans = "ok" THEN PatchPaymentById(pid, [status |-> status])
    ELSE payments

\* PATCH payments?id=eq.<payment_id> with {"status": new_payment_status};
\* the answer is not looked at, and the handler goes on to the notifications
update_dispute_payment(p, answers) ==
    /\ procs[p].op = "update_dispute" /\ procs[p].pc = "payment"
    /\ \E ans \in answers :
        LET r == procs[p]
        IN  \/ /\ ans # "exc"
               /\ payments' = SettlePayment(ans, r.payment_id,
                                            new_payment_status(r.resolution))
               /\ Goto(p, Notifying(r))
            \/ /\ ans = "exc"
               /\ Return(p, Response(r.op, r.user, ExceptException(ans), 0,
                                     r.dispute_id, TRUE))
               /\ UNCHANGED payments
    /\ UNCHANGED <<disputes, ratings, webhookSecret, processor, now>>

\* The notifications of the two parties: get_payment_info and
\* notify_dispute_resolved (twice) are awaited inside a try block of their
\* own; whatever they raise is logged, and no table of the model is written
\* to.  Then the handler returns the dispute its PATCH got back.
update_dispute_notify(p) ==
    /\ procs[p].op = "update_dispute" /\ procs[p].pc = "notify"
    /\ LET r == procs[p]
       IN  Return(p, Response(r.op, r.user, 200, 0, r.dispute_id, TRUE))
    /\ UNCHANGED <<payments, disputes, ratings, webhookSecret, processor, now>>

----------------------------------------------------------------------------
(* Ratings *)

\* the user_id claim of a verified token (verify_jwt_token returns the
\* payload): a participant of the job, another user, or no such claim
RaterIds == {"e1", "w1", "u3", None}

\* the users a rating may name
RatedIds == {"e1", "w1", "u3"}

\* the requests table, which holds the jobs the ratings router reads: j1 is
\* completed, j2 is not; no request of the model writes to it
RequestIds == {"j1", "j2"}
RequestRow(j) ==
    [id |-> j, client_id |-> "e1", worker_id |-> "w1",
     status |-> IF j = "j1" THEN "completado" ELSE "en_progreso"]

\* job ids a RatingCreate may name
RatingJobIds == RequestIds \cup {"unknown"}

\* What the store sends back for an inserted row: the row as a JSON object,
\* a list holding it, or nothing.  response.json() raises on an empty body,
\* at once; rating["id"] raises on a list, after the notification.  Both
\* leave create_rating through its "except Exception" clause.
InsertBodies == {"object", "list", "empty"}

\* validate_user_participated_in_job
validate_user_participated_in_job(job, user_id) ==
    job.client_id = user_id \/ job.worker_id = user_id

\* the rows GET ratings?job_id=eq.<job>&rater_id=eq.<rater> returns
RatingsOf(job_id, rater_id) ==
    SelectSeq(ratings,
              LAMBDA row : row.job_id = job_id /\ row.rater_id = rater_id)

\* check_existing_rating: the rows of an answer of 200 are counted; any
\* other status code and httpx.RequestError give False
check_existing_rating(job_id, rater_id, ans) ==
    IF ans = "ok" THEN Len(RatingsOf(job_id, rater_id)) > 0 ELSE FALSE

\* The response of create_rating.  Kept with it: the job and the rater of
\* the request, and whether the request inserted a rating.
RatingResponse(result, job_id, rater_id, wrote) ==
    [op |-> "create_rating", result |-> result, job_id |-> job_id,
     rater_id |-> rater_id, wrote |-> wrote]

\* The request arrives: the token's user_id, the self-rating test, then
\* validate_job_exists (GET requests?id=eq.<job>) and the two participation
\* tests, which await nothing.  HTTPException is re-raised as it is.  The
\* score and the comment, which Pydantic validates and no later test of the
\* handler reads, are not kept.
create_rating(p, limit, answers) ==
    /\ Arrives(p, limit)
    /\ \E rater_id \in RaterIds, job_id \in RatingJobIds,
          rated_id \in RatedIds, ans \in answers :
           LET Raise(code) ==
                   Return(p, RatingResponse(code, job_id, rater_id, FALSE))
               job == RequestRow(job_id)
           IN  IF rater_id = None THEN Raise(401)
               ELSE IF rater_id = rated_id THEN Raise(400)
               ELSE IF ans # "ok" THEN Raise(500)
               ELSE IF job_id \notin RequestIds THEN Raise(404)
               ELSE IF job.status # "completado" THEN Raise(400)
               ELSE IF ~validate_user_participated_in_job(job, rater_id)
                 THEN Raise(403)
               ELSE IF ~validate_user_participated_in_job(job, rated_id)
                 THEN Raise(400)
               ELSE Goto(p, [op |-> "create_rating", pc |-> "check",
                             job_id |-> job_id, rater_id |-> rater_id,
                             rated_id |-> rated_id])
    /\ UNCHANGED <<payments, disputes, ratings, webhookSecret, processor>>

\* check_existing_rating, and "Ya has calificado este trabajo" when it
\* returns True
create_rating_check(p, answers) ==
    /\ procs[p].op = "create_rating" /\ procs[p].pc = "check"
    /\ \E ans \in answers :
        LET r == procs[p]
        IN  IF check_existing_rating(r.job_id, r.rater_id, ans)
              THEN Return(p, RatingResponse(400, r.job_id, r.rater_id, FALSE))
            ELSE Goto(p, [r EXCEPT !.pc = "insert"])
    /\ UNCHANGED <<payments, disputes, ratings, webhookSecret, processor, now>>

\* create_rating_record: POST ratings, and response.json() of the answer;
\* with a body read the handler goes on to the notification
create_rating_insert(p, answers) ==
    /\ procs[p].op = "create_rating" /\ procs[p].pc = "insert"
    /\ \E ans \in answers :
        LET r == procs[p]
            row == [job_id |-> r.job_id, rater_id |-> r.rater_id,
                    rated_id |-> r.rated_id]
        IN  \/ /\ ans = "ok"
               /\ ratings' = Append(ratings, row)
               /\ \E body \in InsertBodies :
                      IF body = "empty"
                        THEN Return(p, RatingResponse(ExceptException(body),
                                                      r.job_id, r.rater_id,
                                                      TRUE))
                      ELSE Goto(p, [op |-> r.op, pc |-> "notify",
                                    job_id |-> r.job_id,
                                    rater_id |-> r.rater_id,
                                    rated_id |-> r.rated_id,
                                    body |-> body])
            \/ /\ ans # "ok"
               /\ Return(p, RatingResponse(500, r.job_id, r.rater_id, FALSE))
               /\ UNCHANGED ratings
    /\ UNCHANGED <<payments, disputes, webhookSecret, processor, now>>

\* The notification of the rated user: get_user_name and
\* notify_rating_received are awaited inside a try block of their own, which
\* also catches what rating["id"] raises on a list; no table of the model is
\* written to.  Then rating["id"] is read for the log, outside that block,
\* and the handler returns the rating.
create_rating_notify(p) ==
    /\ procs[p].op = "create_rating" /\ procs[p].pc = "notify"
    /\ LET r == procs[p]
       IN  Return(p, RatingResponse(IF r.body = "object" THEN 201
                                    ELSE ExceptException(r.body),
                                    r.job_id, r.rater_id, TRUE))
    /\ UNCHANGED <<payments, disputes, ratings, webhookSecret, processor, now>>

----------------------------------------------------------------------------

\* the tables are empty, the webhook secret is configured, no request runs
Init ==
    /\ payments = <<>>
    /\ disputes = <<>>
    /\ ratings = <<>>
    /\ webhookSecret = "whsec"
    /\ processor = "pending"
    /\ now = 0
    /\ procs = [p \in Slots |-> Idle]
    /\ response = NoResponse

\* every step of every handler, with at most `limit` requests in flight,
\* the store and the processor answering from `answers`, in the given world
Step(limit, answers, world) ==
    \E p \in Slots :
        \/ create_payment(p, limit, answers)
        \/ create_payment_check(p, answers)
        \/ create_payment_insert(p, answers)
        \/ hold_payment(p, limit, answers)
        \/ hold_payment_patch(p, answers)
        \/ hold_payment_notify(p)
        \/ release_payment(p, limit, answers)
        \/ release_payment_patch(p, answers)
        \/ release_payment_notify(p)
        \/ auto_release_payments(p, limit, answers)
        \/ process_webhook(p, limit, world)
        \/ process_webhook_fetch(p, answers, world)
        \/ process_webhook_job(p, answers)
        \/ process_webhook_users(p, answers, world)
        \/ process_webhook_patch(p, answers)
        \/ create_dispute(p, limit, answers)
        \/ create_dispute_check(p, answers)
        \/ create_dispute_insert(p, answers)
        \/ create_dispute_patch(p, answers)
        \/ create_dispute_notify(p)
        \/ update_dispute(p, limit, answers)
        \/ update_dispute_patch(p, answers)
        \/ update_dispute_payment(p, answers)
        \/ update_dispute_notify(p)

\* one request at a time; the store and the processor may fail any call
Next == Step(1, StoreAnswers, PlainWorld)

Spec == Init /\ [][Next]_vars

\* The world of the interleaved requests: the payer has paid, so the
\* processor holds the payment as approved, with the reference
\* create_payment set, and the users of the job have their rows.  A
\* delivery is then one more writer among the requests: it sets the
\* payments of the job to held.
PaidWorld ==
    [statuses |-> {"approved"}, references |-> {<<"job_", "j1">>},
     users |-> {{"e1", "w1"}}]

\* requests interleave at every awaited call; the store and the processor
\* answer every call
RaceNext == Step(MaxInFlight, {"ok"}, PaidWorld)

RaceSpec == Init /\ [][RaceNext]_vars

\* a payment of job j1 as create_payment leaves it
PendingPayment ==
    NewPaymentRow([job_id |-> "j1", employer_id |-> JobRow("j1").employer_id,
                   worker_id |-> JobRow("j1").worker_id,
                   amount |-> validate_amount(2675), status |-> "pending"])

\* the store before the deliveries: no payment yet, or the payment of job j1
\* that create_payment made
WebhookInit ==
    /\ payments \in {<<>>, <<PendingPayment>>}
    /\ disputes = <<>>
    /\ ratings = <<>>
    /\ webhookSecret = "whsec"
    /\ processor = "pending"
    /\ now = 0
    /\ procs = [p \in Slots |-> Idle]
    /\ response = NoResponse

\* the steps a webhook delivery takes once it is in
WebhookSteps ==
    \E p \in Slots :
        \/ process_webhook_fetch(p, StoreAnswers, FullWorld)
        \/ process_webhook_job(p, StoreAnswers)
        \/ process_webhook_users(p, StoreAnswers, FullWorld)
        \/ process_webhook_patch(p, StoreAnswers)

\* webhooks are delivered, one at a time, in the full world, the store and
\* the processor failing any call
WebhookNext ==
    \/ now < MaxDeliveries /\ \E p \in Slots : process_webhook(p, 1, FullWorld)
    \/ WebhookSteps

WebhookSpec == WebhookInit /\ [][WebhookNext]_vars

\* The world of the reconciliation: the reference create_payment set, the
\* rows of the job's users, and the one status the processor holds now.
ProcessorWorld ==
    [statuses |-> {processor}, references |-> {<<"job_", "j1">>},
     users |-> {{"e1", "w1"}}]

\* the processor moves the payment to another status
ProcessorMoves ==
    /\ processor' \in MPReported \ {processor}
    /\ UNCHANGED <<payments, disputes, ratings, webhookSecret, now, procs,
                   response>>

\* webhook deliveries for the payment of job j1 interleave at every awaited
\* call while the processor moves the payment; the store and the processor
\* answer every call
ReconcileNext ==
    \/ \E p \in Slots :
           \/ process_webhook(p, MaxInFlight, ProcessorWorld)
           \/ process_webhook_fetch(p, {"ok"}, ProcessorWorld)
           \/ process_webhook_job(p, {"ok"})
           \/ process_webhook_users(p, {"ok"}, ProcessorWorld)
           \/ process_webhook_patch(p, {"ok"})
    \/ ProcessorMoves

ReconcileSpec == WebhookInit /\ [][ReconcileNext]_vars

\* create_rating requests interleave at every awaited call, the store
\* failing any call
RatingNext ==
    \E p \in Slots :
        \/ create_rating(p, MaxInFlight, StoreAnswers)
        \/ create_rating_check(p, StoreAnswers)
        \/ create_rating_insert(p, StoreAnswers)
        \/ create_rating_notify(p)

RatingSpec == Init /\ [][RatingNext]_vars

----------------------------------------------------------------------------
(* Properties *)

\* a request of handler op ends in this step: turned away on arrival (the
\* clock ticks and no slot changes) or returning from its slot
Ends(op) ==
    /\ response'.op = op
    /\ \/ now' # now /\ procs' = procs
       \/ \E p \in Slots : procs[p].op = op /\ procs'[p] = Idle

\* a create_dispute request is turned away on arrival in this step
DisputeTurnedAway ==
    /\ now' # now /\ procs' = procs
    /\ response'.op = "create_dispute"

\* a create_dispute request is let in to slot p in this step
DisputeLetIn(p) ==
    procs[p] = Idle /\ procs'[p].op = "create_dispute"

\* payment pid exists and user sub is neither its employer nor its worker
Outsider(pid, sub) ==
    /\ pid \in 1..Len(payments)
    /\ sub \notin {payments[pid].employer_id, payments[pid].worker_id}

TerminalStatus == {"released", "refunded"}

\* the open disputes of payment pid
OpenDisputesOf(pid) ==
    {d \in DisputeIdsOfPayment(pid) : disputes[d].status = "open"}

\* C1: a payment whose status is released or refunded keeps that status in
\* every step, whatever operation or webhook delivery runs next.
C1_TerminalStatusFrozen ==
    [][\A i \in 1..Len(payments) :
           payments[i].status \in TerminalStatus
               => payments'[i].status = payments[i].status]_vars

\* C2: a hold_payment or release_payment request that meets its state guard
\* (the payment is not pending, respectively not held) is answered with a
\* client error (4xx) and writes nothing.
C2_WrongStatusIsClientError ==
    (response.op \in {"hold_payment", "release_payment"}
        /\ response.raised = 400)
    => (response.result \in 400..499 /\ ~response.wrote)

\* C3: with a webhook secret configured, a delivery whose signature is not
\* the HMAC of its body under the secret is answered "error" without a
\* processor fetch and without a store update, and never gets past the
\* signature check.
C3_InvalidSignatureRejected ==
    webhookSecret # "" =>
        /\ (response.op = "process_webhook"
              /\ response.signature # Hmac(webhookSecret, response.payload))
           => /\ response.status = "error"
              /\ response.fetches = 0 /\ response.patches = 0
        /\ \A p \in Slots :
              procs[p].op = "process_webhook"
                  => procs[p].signature = Hmac(webhookSecret, procs[p].payload)

C3_Witness ==
    /\ response.op = "process_webhook"
    /\ response.payload = "mp1"
    /\ response.signature # Hmac(webhookSecret, response.payload)
    /\ response.status = "error"
    /\ Len(payments) > 0

\* C4: when a delivery follows a successful delivery of the same body and
\* signature and fetches the same processor status, its store update leaves
\* the status of every payment as the first delivery left it and adds no
\* payment row.
C4_RedeliveryKeepsStatus ==
    [][\A p \in Slots :
           (/\ procs[p].op = "process_webhook" /\ procs[p].pc = "patch"
            /\ response.op = "process_webhook"
            /\ response.status = "success"
            /\ response.payload = procs[p].payload
            /\ response.signature = procs[p].signature
            /\ response.mp_status = procs[p].mp_status)
           => /\ Len(payments') = Len(payments)
              /\ \A i \in 1..Len(payments) :
                     payments'[i].status = payments[i].status]_vars

C4_Witness ==
    /\ response.op = "process_webhook"
    /\ response.redelivery
    /\ response.mp_status = "approved"
    /\ \E i \in 1..Len(payments) : payments[i].status = "held"

\* C5: whatever the interleaving of create_payment requests, a job has at
\* most one payment row.
C5_OnePaymentPerJob ==
    \A job \in Jobs : Cardinality(PaymentIdsOfJob(job)) <= 1

\* C6: a create_payment request whose existence lookup, answered by the
\* store, finds a payment of the job ends there with a client error (4xx);
\* no row is added and no row is changed.
C6_SecondPaymentRefused ==
    [][\A p \in Slots :
           (/\ procs[p].op = "create_payment" /\ procs[p].pc = "check"
            /\ PaymentIdsOfJob(procs[p].job_id) # {}
            /\ procs'[p] # procs[p])
           => /\ procs'[p] = Idle
              /\ response'.op = "create_payment"
              /\ response'.result \in 400..499
              /\ ~response'.wrote
              /\ payments' = payments]_vars

C6_Witness ==
    /\ response.op = "create_payment"
    /\ response.result = 400
    /\ Cardinality(PaymentIdsOfJob("j1")) = 1

\* C7: when an update_dispute request ends having set a dispute to resolved,
\* the payment of the dispute is released or refunded, whatever notes and
\* resolution were sent and whatever the store answered.
C7_ResolvedDisputeSettlesPayment ==
    [][(/\ Ends("update_dispute")
        /\ response'.wrote
        /\ response'.target \in 1..Len(disputes')
        /\ disputes'[response'.target].status = "resolved")
       => payments'[disputes'[response'.target].payment_id].status
              \in TerminalStatus]_vars

\* C8: when a create_dispute request ends with 201, the payment it names is
\* disputed and its disputed_at is set, whatever the store answered.
C8_CreatedDisputeMarksPayment ==
    [][(Ends("create_dispute") /\ response'.result = 201)
       => /\ payments'[response'.target].status = "disputed"
          /\ payments'[response'.target].disputed_at # NoTime]_vars

\* C9: whatever the interleaving of create_dispute requests, a payment has
\* at most one open dispute.
C9_OneOpenDisputePerPayment ==
    \A pid \in 1..Len(payments) : Cardinality(OpenDisputesOf(pid)) <= 1

\* C10: with the store answering, a create_dispute request for a payment
\* that does not exist is turned away with 404, and one by a user who is
\* neither the employer nor the worker of the payment with 403; neither is
\* let in, and the step adds no dispute and changes no payment.
C10_OutsiderOrUnknownTurnedAway ==
    [][/\ \A p \in Slots :
              DisputeLetIn(p)
                  => /\ procs'[p].payment_id \in 1..Len(payments)
                     /\ ~Outsider(procs'[p].payment_id,
                                  procs'[p].initiator_id)
       /\ DisputeTurnedAway
              => /\ response'.target \notin 1..Len(payments)
                     => response'.result = 404
                 /\ Outsider(response'.target, response'.caller)
                     => response'.result = 403
                 /\ ~response'.wrote
                 /\ payments' = payments
                 /\ disputes' = disputes]_vars

C10_Witness ==
    /\ response.op = "create_dispute"
    /\ response.result = 403
    /\ response.caller = "u3"
    /\ response.target \in 1..Len(payments)

\* C11: an update_dispute request by a caller who is no administrator is
\* answered 403, and one for a dispute that does not exist 404; neither
\* writes to a dispute or a payment.
C11_ForbiddenOrNotFound ==
    (response.op = "update_dispute" /\ response.raised \in {403, 404})
    => (response.result = response.raised /\ ~response.wrote)

\* the text holds the marker "favor", in capitals or small letters
HasFavorMarker(text) ==
    \E i \in 1..(Len(text) - 4) :
        /\ text[i] \in {"f", "F"}     /\ text[i + 1] \in {"a", "A"}
        /\ text[i + 2] \in {"v", "V"} /\ text[i + 3] \in {"o", "O"}
        /\ text[i + 4] \in {"r", "R"}

\* C12: with the store answering, the step of update_dispute that settles
\* the payment of a dispute set to resolved leaves the payment released when
\* the resolution text holds the marker "favor" in any case of letters, and
\* refunded for every other text.
C12_FavorReleasesElseRefunds ==
    [][\A p \in Slots :
           (/\ procs[p].op = "update_dispute" /\ procs[p].pc = "payment"
            /\ procs'[p] # procs[p])
           => /\ procs[p].status = "resolved"
              /\ payments'[procs[p].payment_id].status =
                     IF HasFavorMarker(procs[p].resolution)
                       THEN "released" ELSE "refunded"]_vars

C12_Witness ==
    /\ response.op = "update_dispute" /\ response.result = 200
    /\ response.target \in 1..Len(disputes)
    /\ disputes[response.target].status = "resolved"
    /\ disputes[response.target].resolution = <<"F", "a", "v", "o", "r">>
    /\ payments[disputes[response.target].payment_id].status = "released"

\* a hold_payment request for payment pid by the user authenticated as id
\* is let in to its update in this step
HoldLetIn(pid, id) ==
    \E p \in Slots :
        /\ procs[p] = Idle
        /\ procs'[p].op = "hold_payment"
        /\ procs'[p].payment_id = pid /\ procs'[p].user.id = id

\* a hold_payment request for payment pid by the user authenticated as id
\* is turned away on arrival in this step
HoldTurnedAway(pid, id) ==
    /\ now' # now /\ procs' = procs
    /\ response'.op = "hold_payment"
    /\ response'.target = pid /\ response'.id = id

\* C13: with the store answering, a hold_payment request by the user
\* AuthService authenticates as the employer of a pending payment is let in
\* to its update, and the update leaves the payment held with held_at set.
C13_AuthenticatedEmployerHolds ==
    [][/\ \A pid \in 1..Len(payments) :
              (/\ payments[pid].status = "pending"
               /\ HoldTurnedAway(pid, payments[pid].employer_id)
                    \/ HoldLetIn(pid, payments[pid].employer_id))
              => HoldLetIn(pid, payments[pid].employer_id)
       /\ \A p \in Slots :
              (/\ procs[p].op = "hold_payment" /\ procs[p].pc = "patch"
               /\ procs'[p] # procs[p])
              => /\ payments'[procs[p].payment_id].status = "held"
                 /\ payments'[procs[p].payment_id].held_at # NoTime]_vars

\* the counts of a delivery, in flight or ended, stay within three
\* processor fetches and three store updates
WithinThree(r) == r.fetches <= 3 /\ r.patches <= 3

\* the awaited calls of an attempt of a delivery, in order
AttemptSteps == <<"fetch", "job", "users", "patch">>

\* the most steps the delivery r may still take: four for each attempt of
\* the retry loop that is left, less those its attempt has taken
StepsLeft(r) ==
    Len(AttemptSteps) * (max_retries - r.attempt)
        - (CHOOSE i \in 1..Len(AttemptSteps) : AttemptSteps[i] = r.pc) + 1

\* C14: every delivery ends, with status success, ignored or error, after
\* at most three processor fetches and at most three store updates; a
\* delivery whose attempts all failed ends with error.  That it ends: a
\* delivery under way is at one of the four calls of an attempt, steps
\* that wait for nothing but the answer, and each step it takes ends it or
\* leaves it fewer steps to take.
C14_DeliveryEndsWithinThree ==
    /\ [](/\ \A p \in Slots :
                procs[p].op = "process_webhook"
                    => /\ WithinThree(procs[p])
                       /\ StepsLeft(procs[p]) > 0
                       /\ procs[p].pc \in {"fetch", "job", "users", "patch"}
          /\ response.op = "process_webhook"
                => /\ response.status \in {"success", "ignored", "error"}
                   /\ WithinThree(response)
                   /\ (response.fetches > 0 /\ response.status # "success")
                          => /\ response.status = "error"
                             /\ response.fetches = 3)
    /\ [][\A p \in Slots :
              procs[p].op = "process_webhook" /\ procs'[p] # procs[p]
                  => \/ procs'[p] = Idle /\ response'.op = "process_webhook"
                     \/ /\ procs'[p].op = "process_webhook"
                        /\ StepsLeft(procs'[p]) < StepsLeft(procs[p])]_vars

C14_Witness ==
    /\ response.op = "process_webhook"
    /\ response.status = "error"
    /\ response.fetches = 3 /\ response.patches = 3

\* a delivery is answered on arrival in this step, before any awaited call
AnsweredOnArrival ==
    /\ now' # now /\ procs' = procs
    /\ response'.op = "process_webhook"

\* the JSON events that carry no payment id: "data" has no id, or is null
WithoutPaymentId == {"noid", "nulldata"}

\* the body resp came with is a JSON event without a payment id, signed
\* with the configured secret
SignedWithoutPaymentId(resp) ==
    /\ resp.payload \in WithoutPaymentId
    /\ resp.signature = Hmac(webhookSecret, resp.payload)

\* C15: a correctly signed webhook whose body carries no payment id is
\* answered with status ignored on arrival: no delivery under way has such
\* a body, so nothing is fetched or retried for it, and the step that
\* answers it writes to no payment.
C15_NoPaymentIdIgnored ==
    /\ [](/\ (response.op = "process_webhook"
                /\ SignedWithoutPaymentId(response))
             => /\ response.status = "ignored"
                /\ response.fetches = 0 /\ response.patches = 0
                /\ response.persisted = 0
          /\ \A p \in Slots :
                procs[p].op = "process_webhook"
                    => procs[p].payload \notin WithoutPaymentId)
    /\ [][(AnsweredOnArrival /\ SignedWithoutPaymentId(response'))
              => payments' = payments]_vars

\* the reference is "job_" followed by the id of a job the store holds
RefersToKnownJob(ref) == \E j \in Jobs : ref = <<"job_", j>>

\* delivery r got past the arrival checks, and the reference the processor
\* holds for its payment is absent, malformed or names an unknown job
BadReference(r) ==
    r.fetches > 0 /\ ~RefersToKnownJob(r.external_reference)

\* C16: a delivery whose payment has no external_reference, one not of the
\* form job_<id>, or one naming a job the store does not hold ends with
\* status error; it never reaches the store update, and no step of it
\* creates or changes a payment.
C16_BadReferenceIsError ==
    /\ [](/\ (response.op = "process_webhook" /\ BadReference(response))
             => /\ response.status = "error"
                /\ response.patches = 0 /\ response.persisted = 0
          /\ \A p \in Slots :
                (/\ procs[p].op = "process_webhook"
                 /\ ~RefersToKnownJob(procs[p].external_reference))
                => procs[p].pc \in {"fetch", "job"} /\ procs[p].patches = 0)
    /\ [][\A p \in Slots :
              (/\ procs[p].op = "process_webhook"
               /\ ~RefersToKnownJob(procs[p].external_reference)
               /\ procs'[p] # procs[p])
              => payments' = payments]_vars

\* the rows of the employer and of the worker of the job of delivery r were
\* both among the user rows its attempt loaded
UsersLoaded(r) ==
    {JobRow(r.job_id).employer_id, JobRow(r.job_id).worker_id}
        \subseteq r.users

\* C17: when the row of the employer or of the worker of the job is
\* missing, the attempt of the delivery writes to no payment, and a
\* delivery that ends in that step ends with status error.
C17_MissingUserRowNotWritten ==
    [][\A p \in Slots :
           (/\ procs[p].op = "process_webhook" /\ procs[p].pc = "patch"
            /\ ~UsersLoaded(procs[p])
            /\ procs'[p] # procs[p])
           => /\ payments' = payments
              /\ procs'[p] = Idle => response'.status = "error"]_vars

\* what the update step of the delivery in slot p leaves of the delivery:
\* its response when it ended, else its record
AfterUpdate(p) == IF procs'[p] = Idle THEN response' ELSE procs'[p]

\* the update of the delivery in slot p is persisted in this step, with the
\* job's users loaded, and a notification dispatched for it was not created
DispatchFailsAfterUpdate(p) ==
    /\ procs[p].op = "process_webhook" /\ procs[p].pc = "patch"
    /\ procs'[p] # procs[p]
    /\ UsersLoaded(procs[p])
    /\ AfterUpdate(p).persisted = procs[p].persisted + 1
    /\ AfterUpdate(p).dispatched # AfterUpdate(p).notified

\* C18: when the store update of a delivery is persisted and the dispatch
\* of a notification then fails, the delivery ends in that step with status
\* success: the update is not sent again and no attempt follows.
C18_DispatchFailureStillSuccess ==
    [][\A p \in Slots :
           DispatchFailsAfterUpdate(p)
               => /\ procs'[p] = Idle
                  /\ response'.status = "success"
                  /\ response'.patches = procs[p].patches + 1
                  /\ response'.fetches = procs[p].fetches]_vars

C18_Witness ==
    /\ response.op = "process_webhook"
    /\ response.status = "success"
    /\ response.persisted = 1 /\ response.patches = 1
    /\ response.dispatched = {"w1"} /\ response.notified = {}
    /\ Len(payments) > 0 /\ payments[1].status = "held"

\* the users of job job_id a notification is meant for, by the status the
\* payment is set to
Recipients(status, job_id) ==
    CASE status = "held"     -> {JobRow(job_id).worker_id}
      [] status = "pending"  -> {JobRow(job_id).employer_id}
      [] status = "disputed" -> {JobRow(job_id).employer_id,
                                 JobRow(job_id).worker_id}
      [] OTHER               -> {}

\* C19: when a delivery whose job and users were loaded ends with status
\* success, a notification has been created for the worker alone when the
\* payment was set to held, for the employer alone when it was set to
\* pending, and for both when it was set to disputed.
C19_SuccessNotifiesRecipients ==
    [][\A p \in Slots :
           (/\ procs[p].op = "process_webhook" /\ procs[p].pc = "patch"
            /\ UsersLoaded(procs[p])
            /\ procs'[p] = Idle
            /\ response'.status = "success")
           => response'.notified =
                  Recipients(_map_mp_status_to_internal(procs[p].mp_status),
                             procs[p].job_id)]_vars

\* the internal status the processor status mp stands for
InternalStatusFor(mp) ==
    IF mp = "approved" THEN "held"
    ELSE IF mp \in {"rejected", "cancelled", "charged_back"} THEN "disputed"
    ELSE IF mp = "refunded" THEN "refunded"
    ELSE "pending"

\* C20: whatever status the processor reports, none included, the store
\* update of a delivery sets the payments of the job to the one internal
\* status that status stands for: held for approved, pending for pending,
\* disputed for rejected, cancelled and charged_back, refunded for
\* refunded, and pending for everything else.
C20_ProcessorStatusMapped ==
    [][\A p \in Slots :
           (/\ procs[p].op = "process_webhook" /\ procs[p].pc = "patch"
            /\ procs'[p] # procs[p]
            /\ AfterUpdate(p).persisted = procs[p].persisted + 1)
           => /\ procs[p].mp_status \in MPStatuses
              /\ \A i \in PaymentIdsOfJob(procs[p].job_id) :
                    /\ payments'[i].status =
                           InternalStatusFor(procs[p].mp_status)
                    /\ payments'[i].mercado_pago_status
                           = procs[p].mp_status]_vars

C20_Witness ==
    /\ response.op = "process_webhook"
    /\ response.status = "success"
    /\ response.mp_status = "in_process"
    /\ Len(payments) > 0
    /\ payments[1].mercado_pago_status = "in_process"
    /\ payments[1].status = "pending"

\* a hold_payment or release_payment request ends in this step, and its
\* caller, by the "sub" or the "id" of the token, is not the employer of
\* the payment it names
NotEmployerEnds(op) ==
    /\ Ends(op)
    /\ response'.target \in 1..Len(payments)
    /\ payments[response'.target].employer_id
           \notin {response'.caller, response'.id}

\* the request in slot p takes a step, and its caller, by the "sub" or the
\* "id" of the token, is not the employer of the payment it names
NotEmployerSteps(p) ==
    /\ procs[p].op \in {"hold_payment", "release_payment"}
    /\ procs'[p] # procs[p]
    /\ payments[procs[p].payment_id].employer_id
           \notin {procs[p].user.sub, procs[p].user.id}

\* C21: a hold_payment or release_payment request of a user who is not the
\* employer of the payment changes no payment, whatever the status of the
\* payment: neither the step that turns it away nor any step it takes.
C21_OnlyEmployerHoldsOrReleases ==
    [][/\ \A op \in {"hold_payment", "release_payment"} :
              NotEmployerEnds(op) => payments' = payments
       /\ \A p \in Slots : NotEmployerSteps(p) => payments' = payments]_vars

C21_Witness ==
    /\ response.op = "release_payment"
    /\ response.caller = "w1" /\ response.raised = 403
    /\ response.target \in 1..Len(payments)
    /\ payments[response.target].status = "held"

\* C22: at most one rating exists for each job and rater, whatever
\* create_rating requests ran and whatever the store answered to their
\* lookups.
C22_OneRatingPerJobAndRater ==
    \A i, j \in 1..Len(ratings) :
        (ratings[i].job_id = ratings[j].job_id
            /\ ratings[i].rater_id = ratings[j].rater_id) => i = j

\* the timestamp column of the status a payment enters
TimestampOf(status) ==
    CASE status = "held"     -> "held_at"
      [] status = "released" -> "released_at"
      [] status = "disputed" -> "disputed_at"

\* C23: held_at, released_at and disputed_at of a payment change only in a
\* step that moves the payment into that status from another status (a
\* delivery that finds the payment in the status it maps to leaves the
\* timestamp as it is), and a timestamp that is set is never cleared.
C23_TimestampsWrittenOnEntry ==
    [][\A i \in 1..Len(payments) :
           \A status \in {"held", "released", "disputed"} :
               LET at == TimestampOf(status)
               IN  /\ payments'[i][at] # payments[i][at]
                          => /\ payments'[i].status = status
                             /\ payments[i].status # status
                   /\ payments[i][at] # NoTime
                          => payments'[i][at] # NoTime]_vars

\* the request of handler op in slot p sends its write in this step and
\* the store applies it
Writes(p, op) ==
    /\ procs[p].op = op /\ procs[p].pc = "patch"
    /\ procs'[p].pc = "notify"

\* C24: whatever requests run in between, hold_payment writes held only
\* over a payment that is pending when the write is applied, and
\* release_payment writes released only over a payment that is held then.
C24_GuardHoldsAtWrite ==
    [][\A p \in Slots :
           /\ Writes(p, "hold_payment")
                  => payments[procs[p].payment_id].status = "pending"
           /\ Writes(p, "release_payment")
                  => payments[procs[p].payment_id].status = "held"]_vars

\* C25: a step of a create_dispute request whose payment is pending,
\* released or refunded adds no dispute and leaves the status of the
\* payment as it is: disputes are created, and payments moved to disputed,
\* only while the payment is held.
C25_DisputeOnlyWhileHeld ==
    [][\A p \in Slots :
           (/\ procs[p].op = "create_dispute"
            /\ procs'[p] # procs[p]
            /\ payments[procs[p].payment_id].status
                   \in {"pending", "released", "refunded"})
           => /\ disputes' = disputes
              /\ payments'[procs[p].payment_id].status
                     = payments[procs[p].payment_id].status]_vars

\* the delivery in slot p fetched a status the processor has left since
Stale(p) == procs[p].mp_status # processor

\* C26: the store update of a delivery that fetched a status the processor
\* has left since does not change the status of a payment that holds the
\* result of a delivery that fetched the processor's present status: once
\* the deliveries are over the stored status is the one the processor's
\* latest status maps to.
C26_OlderFetchNeverOverwrites ==
    [][\A p \in Slots :
           (/\ procs[p].op = "process_webhook" /\ procs[p].pc = "patch"
            /\ procs'[p] # procs[p]
            /\ Stale(p))
           => \A i \in PaymentIdsOfJob(procs[p].job_id) :
                  (/\ payments[i].mercado_pago_payment_id = procs[p].payment_id
                   /\ payments[i].mercado_pago_status = processor)
                  => payments'[i].status = payments[i].status]_vars

\* the columns that say what a payment is for
Identity(row) ==
    [amount |-> row.amount, job_id |-> row.job_id,
     employer_id |-> row.employer_id, worker_id |-> row.worker_id]

\* C27: no step of any request, a webhook delivery and its re-delivery
\* included, changes the amount, the job, the employer or the worker of a
\* payment the store holds.
C27_IdentityKept ==
    [][/\ Len(payments') >= Len(payments)
       /\ \A i \in 1..Len(payments) :
              Identity(payments'[i]) = Identity(payments[i])]_vars

C27_Witness ==
    /\ response.op = "process_webhook"
    /\ response.redelivery
    /\ Len(payments) > 0
    /\ payments[1].mercado_pago_payment_id = "mp1"
    /\ Identity(payments[1]) = Identity(PendingPayment)

\* payment pid has a dispute that is open, reviewing or escalated before
\* and after this step
StaysUnresolved(pid) ==
    \E d \in DisputeIdsOfPayment(pid) :
        /\ disputes[d].status \in {"open", "reviewing", "escalated"}
        /\ disputes'[d].status \in {"open", "reviewing", "escalated"}

\* C28: a disputed payment with a dispute that is open, reviewing or
\* escalated stays disputed: no webhook delivery, hold or release moves it
\* to another status while the dispute is unresolved.
C28_UnresolvedDisputeKeepsDisputed ==
    [][\A i \in 1..Len(payments) :
           (payments[i].status = "disputed" /\ StaysUnresolved(i))
               => payments'[i].status = "disputed"]_vars

\* the timestamp columns of the statuses a payment is moved to
StatusTimestamps ==
    [held |-> "held_at", released |-> "released_at",
     disputed |-> "disputed_at", refunded |-> "refunded_at"]

\* C29: a payment that is held, released, disputed or refunded has the
\* timestamp of that status set, whichever request gave it the status.
C29_StatusHasTimestamp ==
    \A i \in 1..Len(payments) :
        payments[i].status \in DOMAIN StatusTimestamps
            => payments[i][StatusTimestamps[payments[i].status]] # NoTime

\* C30: a delivery ends with status success only when the store holds a
\* payment of the job its reference names, one its update was applied to;
\* for a job without a payment it does not end with success.
C30_SuccessNeedsPayment ==
    [][\A p \in Slots :
           (/\ procs[p].op = "process_webhook"
            /\ procs'[p] = Idle
            /\ response'.status = "success")
           => \E i \in PaymentIdsOfJob(procs[p].job_id) :
                  payments'[i].mercado_pago_payment_id
                      = procs[p].payment_id]_vars

====
